---- MODULE Spec2Model ----
(***************************************************************************)
(* DouaneCalc Maroc: the customs valuation ("Valeur a Declarer") engine    *)
(* calculateCustoms and the host component (App) that invokes it.          *)
(*                                                                         *)
(* Numbers are JavaScript numbers in the source.  The model computes with  *)
(* exact rationals [n, d] (d > 0, lowest terms); [n |-> 0, d |-> 0] stands *)
(* for a value that is not a number (undefined / NaN).  Rounding of IEEE   *)
(* doubles is not modelled: equalities of the model are the equalities     *)
(* "within floating-point tolerance" of the source.                        *)
(***************************************************************************)
EXTENDS Integers, Sequences, FiniteSets

VARIABLES
    version,        \* which App module is built: "current" or "legacy"
    service,        \* which getExchangeRate is built: "frankfurter" or "gemini"
    loading,        \* useState(false)
    error,          \* useState<string | null>(null)
    invoice,        \* useState<InvoiceData | null>(null)
    results,        \* useState<CustomsResult | null>(null)
    exchangeRate,   \* useState<number>(10.5)
    isGenerating,   \* useState(false)
    generatingClass,\* document.body.classList contains 'generating-pdf'
    saving,         \* html2pdf save() promises that have not settled yet
    inFlight,       \* uploads whose FileReader or reader.onload has not finished yet
    fretForVAD,     \* the local fretHSValueForVAD of each HS group of the
                    \* last calculateCustoms run, [regime index][group index]
    latestUpload,   \* what became of the most recently started upload
    event,          \* the handler or callback that ran last, with its input
    probe           \* an observer's note of one earlier calculateCustoms run

\* the state of the PDF export
pdfVars == <<isGenerating, generatingClass, saving>>

vars == <<version, service, loading, error, invoice, results, exchangeRate, pdfVars,
          inFlight, fretForVAD, latestUpload, event, probe>>

-----------------------------------------------------------------------------
(* Bounds of the model *)

MaxItems == 2       \* longest item list of an invoice
MaxInFlight == 2    \* most uploads in flight at once
MaxNamedItems == 1  \* longest item list of an invoice with arbitrary code strings
MaxSaving == 2      \* most save() promises pending at once

-----------------------------------------------------------------------------
(* Numbers *)

RECURSIVE GCD(_, _)
GCD(a, b) == IF b = 0 THEN a ELSE GCD(b, a % b)

Abs(x) == IF x < 0 THEN -x ELSE x

NaN == [n |-> 0, d |-> 0]

IsNum(a) == a.d # 0

R(i) == [n |-> i, d |-> 1]

Zero == R(0)

Frac(n, d) == LET g == GCD(Abs(n), d) IN [n |-> n \div g, d |-> d \div g]

RAdd(a, b) ==
    IF ~IsNum(a) \/ ~IsNum(b) THEN NaN
    ELSE LET g == GCD(a.d, b.d)
         IN  Frac(a.n * (b.d \div g) + b.n * (a.d \div g), (a.d \div g) * b.d)

RMul(a, b) ==
    IF ~IsNum(a) \/ ~IsNum(b) THEN NaN
    ELSE LET g1 == GCD(Abs(a.n), b.d)
             g2 == GCD(Abs(b.n), a.d)
         IN  [n |-> (a.n \div g1) * (b.n \div g2), d |-> (a.d \div g2) * (b.d \div g1)]

\* a / b; every division of the source has a guarded, positive denominator
RDiv(a, b) ==
    IF ~IsNum(a) \/ ~IsNum(b) \/ b.n <= 0 THEN NaN
    ELSE RMul(a, [n |-> b.d, d |-> b.n])

\* x > 0 in JavaScript: false for undefined / NaN
Gt0(x) == IsNum(x) /\ x.n > 0

\* x || dflt for a number: undefined, NaN and 0 are falsy
OrElse(x, dflt) == IF ~IsNum(x) \/ x.n = 0 THEN dflt ELSE x

\* seq.reduce((s, x) => s + x, 0)
RECURSIVE SumSeq(_)
SumSeq(s) == IF s = <<>> THEN Zero ELSE RAdd(SumSeq(SubSeq(s, 1, Len(s) - 1)), s[Len(s)])

\* seq.reduce((s, x) => s + x.fld, 0)
SumOf(s, fld) == SumSeq([k \in 1..Len(s) |-> s[k][fld]])

\* seq.reduce((s, x) => s + (x.fld || 0), 0)
SumOrZero(s, fld) == SumSeq([k \in 1..Len(s) |-> OrElse(s[k][fld], Zero)])


Range(s) == {s[i] : i \in 1..Len(s)}

\* the elements of s without repetition, in first-seen order
RECURSIVE Distinct(_)
Distinct(s) ==
    IF s = <<>> THEN <<>>
    ELSE LET r == Distinct(SubSeq(s, 1, Len(s) - 1))
         IN  IF s[Len(s)] \in Range(r) THEN r ELSE Append(r, s[Len(s)])

-----------------------------------------------------------------------------
(* Constants of the source *)

ACONAGE_TOTAL_MAD == 2300

ASSURANCE_RATE == Frac(5, 1000)     \* the literal 0.005

REGIME_LABELS ==
    [r \in {"010", "023", "312", "311", "022", "040"} |->
        CASE r = "010" -> "Mise à la consommation directe"
          [] r = "023" -> "ATPA sans paiement"
          [] r = "312" -> "AT d'emballages et contenants importés pleins"
          [] r = "311" -> "AT d'emballages et contenants importés vides"
          [] r = "022" -> "ATPA avec paiement"
          [] r = "040" -> "MAC en suite d'ATPA"]

REGIME_LABELS_v1 ==
    [r \in {"010", "023", "312", "311", "022", "040"} |->
        CASE r = "010" -> "Mise à la consommation directe"
          [] r = "023" -> "ATPA sans paiement"
          [] r = "312" -> "AT d'emballages importés pleins"
          [] r = "311" -> "AT d'emballages importés vides"
          [] r = "022" -> "ATPA avec paiement"
          [] r = "040" -> "MAC en suite d'ATPA"]

\* The property names every object literal inherits from Object.prototype.
\* obj[key] for such a key is the inherited member (a function, or the
\* prototype object for "__proto__"): a truthy value that is no array and no
\* string.
ObjectPrototype ==
    {"constructor", "__proto__", "hasOwnProperty", "isPrototypeOf",
     "propertyIsEnumerable", "toLocaleString", "toString", "valueOf",
     "__defineGetter__", "__defineSetter__", "__lookupGetter__", "__lookupSetter__"}

\* stands for the inherited member obj[key] of a key of ObjectPrototype
InheritedMember == "[Object.prototype member]"

\* REGIME_LABELS[regime] || 'Régime Spécifique'
regimeLibelle(labels, regime) ==
    IF regime \in DOMAIN labels THEN labels[regime]
    ELSE IF regime \in ObjectPrototype THEN InheritedMember
    ELSE "Régime Spécifique"

-----------------------------------------------------------------------------
(* Strings *)

\* a possible fault: the Incoterm is compared as written
toUpperCase_asWritten(s) == s

\* String.prototype.toUpperCase on the Incoterm strings of the model
toUpperCase(s) ==
    CASE s = "cfr" -> "CFR"
      [] s = "Cfr" -> "CFR"
      [] s = "cif" -> "CIF"
      [] s = "fob" -> "FOB"
      [] OTHER -> s

\* The value of a property key that is a canonical array index ("0", "1", ...,
\* "4294967294"), -1 for every other key.  Object.entries lists the array-index
\* keys first, in ascending numeric order, then the other keys in insertion order.
ArrayIndex(key) ==
    CASE key = "100" -> 100
      [] key = "20" -> 20
      [] OTHER -> -1

RECURSIVE SortedIndexKeys(_)
SortedIndexKeys(keys) ==
    IF keys = {} THEN <<>>
    ELSE LET k == CHOOSE x \in keys : \A y \in keys : ArrayIndex(x) <= ArrayIndex(y)
         IN  <<k>> \o SortedIndexKeys(keys \ {k})

\* Object.entries(hsGroups): the keys of an object whose keys were inserted in
\* the order `inserted`
ObjectKeys(inserted) ==
    SortedIndexKeys({k \in Range(inserted) : ArrayIndex(k) >= 0})
        \o SelectSeq(inserted, LAMBDA k : ArrayIndex(k) < 0)

-----------------------------------------------------------------------------
(* calculateCustoms: the valuation engine *)

\* a possible fault: CIF selects the CFR mode too
isCFR_orCIF(data) == toUpperCase(data.incoterm) \in {"CFR", "CIF"}

\* data.incoterm?.toUpperCase() === 'CFR'
isCFR(data) == toUpperCase(data.incoterm) = "CFR"

\* the legacy App also folds CIF into the CFR mode
isCFR_v1(data) == toUpperCase(data.incoterm) = "CFR" \/ toUpperCase(data.incoterm) = "CIF"

\* totalWeightBrut > 0 ? totalFretMAD / totalWeightBrut : 0
globalFretRatio(totalFretMAD, totalWeightBrut) ==
    IF Gt0(totalWeightBrut) THEN RDiv(totalFretMAD, totalWeightBrut) ELSE Zero

\* totalWeightBrut > 0 ? ACONAGE_TOTAL_MAD / totalWeightBrut : 0
globalAconageRatio(totalWeightBrut) ==
    IF Gt0(totalWeightBrut) THEN RDiv(R(ACONAGE_TOTAL_MAD), totalWeightBrut) ELSE Zero

\* a possible fault: the filter on regime '023' is missing
weight023Total_allRegimes(data) ==
    SumOrZero(data.items, "weightNet")

\* data.items.filter(i => i.regime === '023').reduce((s, i) => s + (i.weightNet || 0), 0)
weight023Total(data) ==
    SumOrZero(SelectSeq(data.items, LAMBDA i : i.regime = "023"), "weightNet")

\* weight023Total > 0 ? totalFretMAD / weight023Total : 0
fretRatioFor023_CFR(totalFretMAD, w023) ==
    IF Gt0(w023) THEN RDiv(totalFretMAD, w023) ELSE Zero

\* The values shared by every group of one run of the current App.
Ratios(data, rate) ==
    LET totalFretMAD == RMul(data.fret, rate)
        totalWeightBrut == data.totalWeightBrut
    IN  [rate |-> rate,
         isCFR |-> isCFR(data),
         totalFobMAD |-> RMul(data.subtotal, rate),
         totalFretMAD |-> totalFretMAD,
         totalWeightBrut |-> totalWeightBrut,
         globalFretRatio |-> globalFretRatio(totalFretMAD, totalWeightBrut),
         globalAconageRatio |-> globalAconageRatio(totalWeightBrut),
         fretRatioFor023_CFR |-> fretRatioFor023_CFR(totalFretMAD, weight023Total(data))]

\* The same values in the legacy App: a zero denominator is replaced by 1.
Ratios_v1(data, rate) ==
    LET totalFretMAD == RMul(data.fret, rate)
        totalWeightBrut == OrElse(data.totalWeightBrut, R(1))
        w023 == OrElse(weight023Total(data), R(1))
    IN  [rate |-> rate,
         isCFR |-> isCFR_v1(data),
         totalFobMAD |-> RMul(data.subtotal, rate),
         totalFretMAD |-> totalFretMAD,
         totalWeightBrut |-> totalWeightBrut,
         globalFretRatio |-> RDiv(totalFretMAD, totalWeightBrut),
         globalAconageRatio |-> RDiv(R(ACONAGE_TOTAL_MAD), totalWeightBrut),
         fretRatioFor023_CFR |-> RDiv(totalFretMAD, w023)]

\* a possible fault: one entry per item, the regimes are not deduplicated
regimesFound_perItem(data) == [k \in 1..Len(data.items) |-> data.items[k].regime]

\* Array.from(new Set(data.items.map(i => i.regime)))
regimesFound(data) == Distinct([k \in 1..Len(data.items) |-> data.items[k].regime])

\* item.hsCode || fallback
hsKey(item, fallback) == IF item.hsCode = "" THEN fallback ELSE item.hsCode

\* the keys of hsGroups as Object.entries lists them
hsGroupKeys(its, fallback) ==
    ObjectKeys(Distinct([k \in 1..Len(its) |-> hsKey(its[k], fallback)]))

\* a possible fault: a group keeps only the first item of its key
hsGroupItems_firstOnly(its, fallback, key) ==
    SubSeq(SelectSeq(its, LAMBDA i : hsKey(i, fallback) = key), 1, 1)

\* hsGroups[key]
hsGroupItems(its, fallback, key) ==
    SelectSeq(its, LAMBDA i : hsKey(i, fallback) = key)

\* a possible fault: the FOB is left in the invoice currency
fobHS_unconverted(items, rate) == SumOf(items, "totalPrice")

\* items.reduce((sum, i) => sum + i.totalPrice, 0) * rate
fobHS(items, rate) == RMul(SumOf(items, "totalPrice"), rate)

\* items.reduce((sum, i) => sum + (i.weightNet || 0), 0)
netWeightHS(items) == SumOrZero(items, "weightNet")

\* a possible fault: the packaging regime weighs by net weight too
weightHS_netOnly(regime, items) == netWeightHS(items)

\* the gross weight of a group
weightHS(regime, items) ==
    IF regime = "023" THEN netWeightHS(items)
    ELSE IF regime = "312"
         THEN LET c == SumOrZero(items, "packagingCaisses")
                  p == SumOrZero(items, "packagingPalettes")
              IN  RAdd(RMul(c, R(2)), RMul(p, R(25)))
         ELSE netWeightHS(items)

\* the freight that enters the group's valuation
fretHSValueForVAD(g, regime, w) ==
    IF g.isCFR
    THEN IF regime = "023" THEN RMul(g.fretRatioFor023_CFR, w) ELSE Zero
    ELSE RMul(g.globalFretRatio, w)

\* a possible fault: the displayed freight is always the valuation freight
displayFretHS_vadOnly(g, regime, w) ==
    IF g.isCFR
    THEN IF regime = "023" THEN RMul(g.fretRatioFor023_CFR, w) ELSE Zero
    ELSE RMul(g.globalFretRatio, w)

\* the freight shown for the group
displayFretHS(g, regime, w) ==
    IF g.isCFR
    THEN IF regime = "023" THEN fretHSValueForVAD(g, regime, w) ELSE RMul(g.globalFretRatio, w)
    ELSE fretHSValueForVAD(g, regime, w)

\* a possible fault: under CFR no handling is charged
aconageHS_notUnderCFR(g, w) == IF g.isCFR THEN Zero ELSE RMul(w, g.globalAconageRatio)

\* weightHS * globalAconageRatio
aconageHS(g, w) == RMul(w, g.globalAconageRatio)

\* (fobHS + fretHSValueForVAD) * 0.005
assuranceHS(fob, fretVAD) == RMul(RAdd(fob, fretVAD), ASSURANCE_RATE)

\* a possible fault: the insurance is left out of the group total
totalVADHS_noAssurance(fob, fretVAD, assurance, aconage) ==
    RAdd(RAdd(fob, fretVAD), aconage)

\* fobHS + fretHSValueForVAD + assuranceHS + aconageHS
totalVADHS(fob, fretVAD, assurance, aconage) ==
    RAdd(RAdd(RAdd(fob, fretVAD), assurance), aconage)

\* a possible fault: the insurance is taken on the displayed freight
HSCodeBreakdown_insuranceOnDisplay(g, regime, hsCode, items) ==
    LET fob == fobHS(items, g.rate)
        w == weightHS(regime, items)
        fretVAD == fretHSValueForVAD(g, regime, w)
        aconage == aconageHS(g, w)
        assurance == assuranceHS(fob, displayFretHS(g, regime, w))
    IN  [hsCode |-> hsCode,
         description |-> items[1].description,
         weightBrut |-> w,
         weightNet |-> netWeightHS(items),
         fobValueMAD |-> fob,
         fretValueMAD |-> displayFretHS(g, regime, w),
         assuranceValueMAD |-> assurance,
         aconageValueMAD |-> aconage,
         totalVAD |-> totalVADHS(fob, fretVAD, assurance, aconage)]

\* one entry of hsCodeBreakdown
HSCodeBreakdown(g, regime, hsCode, items) ==
    LET fob == fobHS(items, g.rate)
        w == weightHS(regime, items)
        fretVAD == fretHSValueForVAD(g, regime, w)
        aconage == aconageHS(g, w)
        assurance == assuranceHS(fob, fretVAD)
    IN  [hsCode |-> hsCode,
         description |-> items[1].description,
         weightBrut |-> w,
         weightNet |-> netWeightHS(items),
         fobValueMAD |-> fob,
         fretValueMAD |-> displayFretHS(g, regime, w),
         assuranceValueMAD |-> assurance,
         aconageValueMAD |-> aconage,
         totalVAD |-> totalVADHS(fob, fretVAD, assurance, aconage)]

\* data.items.filter(item => item.regime === regime)
regimeItems(data, regime) == SelectSeq(data.items, LAMBDA i : i.regime = regime)

\* the hsCodeBreakdown of one regime
hsCodeBreakdown(g, data, regime, fallback) ==
    LET its == regimeItems(data, regime)
        keys == hsGroupKeys(its, fallback)
    IN  [k \in 1..Len(keys) |->
            HSCodeBreakdown(g, regime, keys[k], hsGroupItems(its, fallback, keys[k]))]

\* the local fretHSValueForVAD of each group of one regime, in the same order
hsFretForVAD(g, data, regime, fallback) ==
    LET its == regimeItems(data, regime)
        keys == hsGroupKeys(its, fallback)
    IN  [k \in 1..Len(keys) |->
            fretHSValueForVAD(g, regime, weightHS(regime, hsGroupItems(its, fallback, keys[k])))]

\* the regime's freight in the current App
fretRegimeForVAD(g, regime, hs) ==
    IF regime = "023" /\ g.isCFR THEN g.totalFretMAD
    ELSE IF g.isCFR THEN Zero
    ELSE RMul(g.globalFretRatio, SumOf(hs, "weightBrut"))

\* the regime's freight in the legacy App
fretRegimeForVAD_v1(g, regime, hs) == SumOf(hs, "fretValueMAD")

\* a possible fault: the regime total rebuilt from the stored fields of the groups
regimeTotalVAD_fromFields(hs) ==
    SumSeq([k \in 1..Len(hs) |->
               RAdd(RAdd(RAdd(hs[k].fobValueMAD, hs[k].fretValueMAD),
                         hs[k].assuranceValueMAD), hs[k].aconageValueMAD)])

\* hsCodeBreakdown.reduce((s, h) => s + h.totalVAD, 0)
regimeTotalVAD(hs) == SumOf(hs, "totalVAD")

\* one entry of breakdown
RegimeResult(regime, libelle, fret, hs) ==
    [regime |-> regime,
     regimeLibelle |-> libelle,
     fobValueMAD |-> SumOf(hs, "fobValueMAD"),
     fretValueMAD |-> fret,
     assuranceValueMAD |-> SumOf(hs, "assuranceValueMAD"),
     aconageValueMAD |-> SumOf(hs, "aconageValueMAD"),
     weightBrut |-> SumOf(hs, "weightBrut"),
     totalVAD |-> regimeTotalVAD(hs),
     hsCodeBreakdown |-> hs]

\* a possible fault: the run patches the stored report, adding its regime
\* results to those already there
CustomsResult_patched(g, incoterm, breakdown) ==
    LET kept == IF results = [null |-> TRUE] THEN <<>> ELSE results.breakdown
        all == kept \o breakdown
    IN  [exchangeRate |-> g.rate,
         incoterm |-> incoterm,
         totalFobMAD |-> g.totalFobMAD,
         totalFretMAD |-> g.totalFretMAD,
         totalAssuranceMAD |-> SumOf(all, "assuranceValueMAD"),
         totalAconageMAD |-> SumOf(all, "aconageValueMAD"),
         totalWeightBrut |-> g.totalWeightBrut,
         totalVAD |-> SumOf(all, "totalVAD"),
         breakdown |-> all]

\* the object passed to setResults
CustomsResult(g, incoterm, breakdown) ==
    [exchangeRate |-> g.rate,
     incoterm |-> incoterm,
     totalFobMAD |-> g.totalFobMAD,
     totalFretMAD |-> g.totalFretMAD,
     totalAssuranceMAD |-> SumOf(breakdown, "assuranceValueMAD"),
     totalAconageMAD |-> SumOf(breakdown, "aconageValueMAD"),
     totalWeightBrut |-> g.totalWeightBrut,
     totalVAD |-> SumOf(breakdown, "totalVAD"),
     breakdown |-> breakdown]

\* calculateCustoms of the current App
calculateCustoms(data, rate) ==
    LET g == Ratios(data, rate)
        regime(r) ==
            LET hs == hsCodeBreakdown(g, data, r, "UNKNOWN")
            IN  RegimeResult(r, regimeLibelle(REGIME_LABELS, r), fretRegimeForVAD(g, r, hs), hs)
        found == regimesFound(data)
    IN  CustomsResult(g, data.incoterm, [k \in 1..Len(found) |-> regime(found[k])])

\* calculateCustoms of the legacy App
calculateCustoms_v1(data, rate) ==
    LET g == Ratios_v1(data, rate)
        regime(r) ==
            LET hs == hsCodeBreakdown(g, data, r, "VARIOUS")
            IN  RegimeResult(r, regimeLibelle(REGIME_LABELS_v1, r), fretRegimeForVAD_v1(g, r, hs), hs)
        found == regimesFound(data)
    IN  CustomsResult(g, data.incoterm, [k \in 1..Len(found) |-> regime(found[k])])

\* the locals fretHSValueForVAD of one run, per regime and group
customsFretForVAD(ver, data, rate) ==
    LET g == IF ver = "legacy" THEN Ratios_v1(data, rate) ELSE Ratios(data, rate)
        fb == IF ver = "legacy" THEN "VARIOUS" ELSE "UNKNOWN"
        found == regimesFound(data)
    IN  [k \in 1..Len(found) |-> hsFretForVAD(g, data, found[k], fb)]

\* hsGroups is an object literal: for a key of ObjectPrototype hsGroups[key] is
\* the inherited member, so no array is created and hsGroups[key].push(item)
\* raises a TypeError before setResults is reached.
calculateCustomsThrows(ver, data) ==
    \E k \in 1..Len(data.items) :
        hsKey(data.items[k], IF ver = "legacy" THEN "VARIOUS" ELSE "UNKNOWN") \in ObjectPrototype

\* a possible fault: the run reads the stored exchangeRate of the host, not
\* its argument
Report_storedRate(ver, data, rate) ==
    IF ver = "legacy" THEN calculateCustoms_v1(data, exchangeRate)
    ELSE calculateCustoms(data, exchangeRate)

\* the report the built App computes, when calculateCustoms does not raise
Report(ver, data, rate) ==
    IF ver = "legacy" THEN calculateCustoms_v1(data, rate) ELSE calculateCustoms(data, rate)

-----------------------------------------------------------------------------
(* The simplified calculator (DouaneCalc Pro) *)

ACONAGE_BASE == 2300

\* the object processCalculation passes to setResults; its ASSURANCE_RATE is
\* the literal 0.005 as well
processCalculation(fob, fret, rate, currency) ==
    LET fobMAD == RMul(fob, rate)
        fretMAD == RMul(fret, rate)
        assurance == RMul(RAdd(fobMAD, fretMAD), ASSURANCE_RATE)
        aconage == R(ACONAGE_BASE)
    IN  [fob |-> fobMAD,
         fret |-> fretMAD,
         assurance |-> assurance,
         aconage |-> aconage,
         totalVAD |-> RAdd(RAdd(RAdd(fobMAD, fretMAD), assurance), aconage),
         exchangeRate |-> rate,
         currency |-> currency]

-----------------------------------------------------------------------------
(* Inputs *)

Item(desc, price, regime, hs, wn, c, p) ==
    [description |-> desc, totalPrice |-> price, regime |-> regime, hsCode |-> hs,
     weightNet |-> wn, packagingCaisses |-> c, packagingPalettes |-> p]

\* The line items the extraction may return.  An absent optional number is
\* NaN, an absent HS code is "".
ItemPool ==
    { Item("d1", R(1000), "023", "HS1", R(500), NaN, NaN),
      Item("d2", R(400), "023", "100", R(300), NaN, NaN),
      Item("d3", R(400), "023", "", NaN, NaN, NaN),
      Item("d4", R(200), "312", "HS1", R(40), R(10), R(2)),
      Item("d5", R(100), "312", "HS1", NaN, R(5), NaN),
      Item("d6", R(600), "010", "HS2", R(100), NaN, NaN),
      Item("d7", R(300), "999", "", R(100), R(3), R(1)) }

ItemSeqs(max) == UNION {[1..n -> ItemPool] : n \in 0..max}

ItemSeqsOf(pool, max) == UNION {[1..n -> pool] : n \in 0..max}

\* Regime and HS codes as strings of any content: the codes of the static
\* table, a code outside it, and names of Object.prototype
NameRegimes == {"010", "023", "312", "311", "022", "040", "999", "constructor", "toString"}

NameHSCodes == {"HS1", "constructor"}

NamedItems ==
    {Item("n", R(1000), r, h, R(500), NaN, NaN) : r \in NameRegimes, h \in NameHSCodes}

\* "" stands for an absent Incoterm
Incoterms == {"CFR", "cfr", "CIF", "FOB", ""}

GrossWeights == {R(0), R(500)}

\* the invoices whose item list is one of itemSeqs
InvoicesOver(itemSeqs) ==
    [subtotal : {R(1000)}, fret : {R(100)}, incoterm : Incoterms,
     totalWeightBrut : GrossWeights, items : itemSeqs]

Invoices(max) == InvoicesOver(ItemSeqs(max))

\* 10.5 is the fallback of getExchangeRate and the initial exchangeRate
Rates == {R(11), Frac(21, 2)}

Null == [null |-> TRUE]

NoError == "null"

\* `Erreur: ${err.message}` for the TypeError raised by calculateCustoms
PushError == "Erreur: hsGroups[key].push is not a function"

\* `Erreur: ${err.message}` when getExchangeRate rejects
RateError == "Erreur: exchange rate request failed"

\* the invoices the host is shown with: a CFR shipment of 023 goods and a FOB
\* shipment of 312 goods
HostInvoices ==
    {d \in Invoices(1) :
        /\ d.totalWeightBrut = R(500)
        /\ <<d.incoterm, d.items>> \in
              {<<"CFR", <<Item("d1", R(1000), "023", "HS1", R(500), NaN, NaN)>>>>,
               <<"FOB", <<Item("d4", R(200), "312", "HS1", R(40), R(10), R(2))>>>>}}

\* the same and a shipment whose HS code is a name of Object.prototype
HostNamedInvoices ==
    HostInvoices \cup
    {d \in InvoicesOver({<<Item("n", R(1000), "023", "constructor", R(500), NaN, NaN)>>}) :
        d.incoterm = "FOB" /\ d.totalWeightBrut = R(500)}

-----------------------------------------------------------------------------
(* The exchange rate services *)

\* What the external rate source does with one request: it cannot be reached
\* (the request rejects), it answers with a non-OK status, or it answers; an
\* answer carries the rate for the target currency, NaN when it carries none
\* that reads as a number.
RateAnswers ==
    {[kind |-> "unreachable", rate |-> NaN], [kind |-> "notOK", rate |-> NaN],
     [kind |-> "answer", rate |-> NaN], [kind |-> "answer", rate |-> R(11)]}

Rejected == [rejected |-> TRUE]

\* getExchangeRate over the Frankfurter API: every failure inside the try
\* block, the non-OK status and the TypeError of a body without rates
\* included, ends in the catch block
getExchangeRate(answer) ==
    IF answer.kind # "answer" THEN Frac(21, 2) ELSE OrElse(answer.rate, Frac(21, 2))

\* getExchangeRate over the Gemini model: the awaited generateContent is not
\* in a try block, and the SDK rejects on a non-OK status
getExchangeRate_gemini(answer) ==
    IF answer.kind # "answer"
    THEN Rejected
    ELSE IF IsNum(answer.rate) THEN answer.rate ELSE Frac(21, 2)

rateLookup(svc, answer) ==
    IF svc = "gemini" THEN getExchangeRate_gemini(answer) ELSE getExchangeRate(answer)

-----------------------------------------------------------------------------
(* The host component App *)

Ev(name) == [name |-> name, val |-> NaN]

Init ==
    /\ version = "current"
    /\ service \in {"frankfurter", "gemini"}
    /\ loading = FALSE
    /\ error = NoError
    /\ invoice = Null
    /\ results = Null
    /\ exchangeRate = Frac(21, 2)
    /\ isGenerating = FALSE
    /\ generatingClass = FALSE
    /\ saving = 0
    /\ inFlight = 0
    /\ fretForVAD = <<>>
    /\ latestUpload = "none"
    /\ event = Ev("none")
    /\ probe = Null

\* uploads in flight that were started before the most recent one
earlierInFlight == inFlight - (IF latestUpload = "inFlight" THEN 1 ELSE 0)

\* One upload in flight comes to its end: the most recently started one, which
\* becomes ofLatest, or one started before it, after which the most recently
\* started one is ofEarlier.
finishes(ofLatest, ofEarlier) ==
    /\ inFlight > 0
    /\ inFlight' = inFlight - 1
    /\ \/ latestUpload = "inFlight" /\ latestUpload' = ofLatest
       \/ earlierInFlight > 0 /\ latestUpload' = ofEarlier

\* handleFileUpload up to reader.readAsDataURL(file), a file being selected
handleFileUpload ==
    /\ inFlight < MaxInFlight
    /\ loading' = TRUE
    /\ error' = NoError
    /\ invoice' = Null
    /\ results' = Null
    /\ fretForVAD' = <<>>
    /\ inFlight' = inFlight + 1
    /\ latestUpload' = "inFlight"
    /\ event' = Ev("upload")
    /\ UNCHANGED <<version, service, exchangeRate, pdfVars>>

\* reader.onload when extractInvoiceData and getExchangeRate both resolve; an
\* exception of calculateCustoms is caught after setExchangeRate and setInvoice
onloadSuccess(data, rate) ==
    /\ finishes("shown", IF latestUpload = "shown" THEN "overwritten" ELSE latestUpload)
    /\ exchangeRate' = rate
    /\ invoice' = data
    /\ IF calculateCustomsThrows(version, data)
       THEN /\ error' = PushError
            /\ UNCHANGED <<results, fretForVAD>>
       ELSE /\ results' = Report(version, data, rate)
            /\ fretForVAD' = customsFretForVAD(version, data, rate)
            /\ UNCHANGED error
    /\ loading' = FALSE
    /\ event' = Ev("loaded")
    /\ UNCHANGED <<version, service, pdfVars>>

\* a possible fault: the catch block tries the upload again and the finally
\* block does not run
onloadCatch_retried(message) ==
    /\ inFlight > 0
    /\ error' = message
    /\ event' = Ev("failed")
    /\ UNCHANGED <<version, service, loading, invoice, results, exchangeRate, fretForVAD,
                   inFlight, latestUpload, pdfVars>>

\* reader.onload when one of the awaited calls rejects: catch, then finally
onloadCatch(message) ==
    /\ finishes("failed", latestUpload)
    /\ error' = message
    /\ loading' = FALSE
    /\ event' = Ev("failed")
    /\ UNCHANGED <<version, service, invoice, results, exchangeRate, fretForVAD, pdfVars>>

\* reader.onload when extractInvoiceData rejects
onloadFailure == onloadCatch("Erreur")

\* The FileReader cannot read the file: it fires its error event, which has
\* no handler, and reader.onload never runs.
readerError ==
    /\ finishes("unread", latestUpload)
    /\ event' = Ev("unread")
    /\ UNCHANGED <<version, service, loading, error, invoice, results, exchangeRate,
                   fretForVAD, pdfVars>>

\* a possible fault: the edit stores the rate and recomputes nothing
handleRateChange_rateOnly(val) ==
    /\ IF IsNum(val) THEN exchangeRate' = val ELSE UNCHANGED exchangeRate
    /\ event' = [name |-> "rateEdit", val |-> val]
    /\ UNCHANGED <<version, service, loading, error, invoice, results, fretForVAD,
                   inFlight, latestUpload, pdfVars>>

\* handleRateChange, val being parseFloat(e.target.value); an exception of
\* calculateCustoms leaves the event handler after setExchangeRate
handleRateChange(val) ==
    /\ IF IsNum(val)
       THEN /\ exchangeRate' = val
            /\ IF invoice # Null /\ ~calculateCustomsThrows(version, invoice)
               THEN /\ results' = Report(version, invoice, val)
                    /\ fretForVAD' = customsFretForVAD(version, invoice, val)
               ELSE UNCHANGED <<results, fretForVAD>>
       ELSE UNCHANGED <<exchangeRate, results, fretForVAD>>
    /\ event' = [name |-> "rateEdit", val |-> val]
    /\ UNCHANGED <<version, service, loading, error, invoice, inFlight, latestUpload, pdfVars>>

\* the report element 'pdf-content' is rendered when results && invoice
reportElement == results # Null /\ invoice # Null

\* a possible fault: the handler does not look at isGenerating
handleDownloadPDF_unguarded(libraryLoaded) ==
    /\ saving < MaxSaving
    /\ IF ~reportElement
       THEN /\ event' = Ev("pdfIgnored")
            /\ UNCHANGED pdfVars
       ELSE IF ~libraryLoaded
       THEN /\ event' = Ev("pdfNoLibrary")
            /\ UNCHANGED pdfVars
       ELSE /\ isGenerating' = TRUE
            /\ generatingClass' = TRUE
            /\ saving' = saving + 1
            /\ event' = Ev("pdfStarted")
    /\ UNCHANGED <<version, service, loading, error, invoice, results, exchangeRate,
                   inFlight, fretForVAD, latestUpload>>

\* handleDownloadPDF up to its first await.  Without the library the throw (in
\* the legacy App the TypeError of calling undefined) is caught and the finally
\* block runs before the handler returns.
handleDownloadPDF(libraryLoaded) ==
    /\ saving < MaxSaving
    /\ IF ~reportElement \/ isGenerating
       THEN /\ event' = Ev("pdfIgnored")
            /\ UNCHANGED pdfVars
       ELSE IF ~libraryLoaded
       THEN /\ event' = Ev("pdfNoLibrary")
            /\ UNCHANGED pdfVars
       ELSE /\ isGenerating' = TRUE
            /\ generatingClass' = TRUE
            /\ saving' = saving + 1
            /\ event' = Ev("pdfStarted")
    /\ UNCHANGED <<version, service, loading, error, invoice, results, exchangeRate,
                   inFlight, fretForVAD, latestUpload>>

\* the awaited save() settles, resolved or rejected (catch): finally
pdfSettled(saved) ==
    /\ saving > 0
    /\ saving' = saving - 1
    /\ generatingClass' = FALSE
    /\ isGenerating' = FALSE
    /\ event' = Ev(IF saved THEN "pdfSaved" ELSE "pdfThrew")
    /\ UNCHANGED <<version, service, loading, error, invoice, results, exchangeRate,
                   inFlight, fretForVAD, latestUpload>>

\* reader.onload with the answers of the two collaborators
onload(data, answer) ==
    LET rate == rateLookup(service, answer)
    IN  IF rate = Rejected THEN onloadCatch(RateError) ELSE onloadSuccess(data, rate)

Upload ==
    \E data \in HostInvoices, answer \in RateAnswers : onload(data, answer) /\ UNCHANGED probe

RateEdit == \E val \in Rates \cup {NaN} : handleRateChange(val) /\ UNCHANGED probe

DownloadPDF == \E libraryLoaded \in BOOLEAN : handleDownloadPDF(libraryLoaded) /\ UNCHANGED probe

PDFSettled == \E saved \in BOOLEAN : pdfSettled(saved) /\ UNCHANGED probe

Next ==
    \/ handleFileUpload /\ UNCHANGED probe
    \/ Upload
    \/ onloadFailure /\ UNCHANGED probe
    \/ readerError /\ UNCHANGED probe
    \/ RateEdit
    \/ DownloadPDF
    \/ PDFSettled

Spec == Init /\ [][Next]_vars

\* The uploads and rate edits of the host, with invoices whose HS code may be
\* any string.
UploadNamed ==
    \E data \in HostNamedInvoices, rate \in Rates : onloadSuccess(data, rate) /\ UNCHANGED probe

NextHost ==
    \/ handleFileUpload /\ UNCHANGED probe
    \/ UploadNamed
    \/ onloadFailure /\ UNCHANGED probe
    \/ RateEdit

SpecHost == Init /\ [][NextHost]_vars

-----------------------------------------------------------------------------------------------------------------------------------------------------
(* calculateCustoms as a function of (invoice, rate): one upload is in       *)
(* flight; it delivers any invoice of the input sets at any rate, and the    *)
(* rate is then edited.                                                      *)

Uploading(ver) ==
    /\ version = ver
    /\ loading = TRUE
    /\ error = NoError
    /\ invoice = Null
    /\ results = Null
    /\ exchangeRate = Frac(21, 2)
    /\ service = "frankfurter"
    /\ isGenerating = FALSE
    /\ generatingClass = FALSE
    /\ saving = 0
    /\ inFlight = 1
    /\ fretForVAD = <<>>
    /\ latestUpload = "inFlight"
    /\ event = Ev("upload")
    /\ probe = Null

InitCalc == Uploading("current")

InitCalcAll == \E ver \in {"current", "legacy"} : Uploading(ver)

UploadCalc ==
    \E data \in Invoices(MaxItems), rate \in Rates : onloadSuccess(data, rate) /\ UNCHANGED probe

Recalculate == \E val \in Rates : handleRateChange(val) /\ UNCHANGED probe

NextCalc == UploadCalc \/ Recalculate

SpecCalc == InitCalc /\ [][NextCalc]_vars

SpecCalcAll == InitCalcAll /\ [][NextCalc]_vars

\* The same with invoices whose regime and HS codes are arbitrary strings.
UploadNames ==
    \E data \in InvoicesOver(ItemSeqsOf(NamedItems, MaxNamedItems)), rate \in Rates :
        onloadSuccess(data, rate) /\ UNCHANGED probe

NextNames == UploadNames \/ Recalculate

SpecNames == InitCalc /\ [][NextNames]_vars

-----------------------------------------------------------------------------
(* The host with an observer of calculateCustoms.  The observer notes one    *)
(* run (its two arguments and the report it passed to setResults) and then   *)
(* follows the later runs: whether one had other arguments, and whether one  *)
(* after that had the noted arguments again.                                 *)

DetInvoices ==
    {d \in Invoices(1) :
        /\ d.incoterm \in {"CFR", "FOB"}
        /\ d.totalWeightBrut = R(500)
        /\ d.items \in {<<Item("d1", R(1000), "023", "HS1", R(500), NaN, NaN)>>,
                        <<Item("d4", R(200), "312", "HS1", R(40), R(10), R(2))>>}}

\* calculateCustoms(data, rate) has just run and passed results' to setResults
Observe(data, rate) ==
    IF probe = Null
    THEN \/ UNCHANGED probe
         \/ probe' = [data |-> data, rate |-> rate, report |-> results',
                      other |-> FALSE, again |-> FALSE]
    ELSE LET same == data = probe.data /\ rate = probe.rate
         IN  probe' = [probe EXCEPT !.other = @ \/ ~same,
                                    !.again = @ \/ (probe.other /\ same)]

UploadDet ==
    \E data \in DetInvoices, rate \in Rates :
        /\ onloadSuccess(data, rate)
        /\ IF calculateCustomsThrows(version, data) THEN UNCHANGED probe ELSE Observe(data, rate)

RateEditDet ==
    \E val \in Rates \cup {NaN} :
        /\ handleRateChange(val)
        /\ IF IsNum(val) /\ invoice # Null /\ ~calculateCustomsThrows(version, invoice)
           THEN Observe(invoice, val)
           ELSE UNCHANGED probe

NextDet ==
    \/ handleFileUpload /\ UNCHANGED probe
    \/ UploadDet
    \/ onloadFailure /\ UNCHANGED probe
    \/ RateEditDet

SpecDet == Init /\ [][NextDet]_vars

-----
(* Vocabulary of the properties *)

HasReport == results # Null

RegimeIdx == 1..Len(results.breakdown)

Reg(ri) == results.breakdown[ri]

GroupIdx(ri) == 1..Len(Reg(ri).hsCodeBreakdown)

Grp(ri, hi) == Reg(ri).hsCodeBreakdown[hi]

\* the sum of a sequence of numbers
RECURSIVE Sigma(_)
Sigma(s) == IF s = <<>> THEN Zero ELSE RAdd(Head(s), Sigma(Tail(s)))

Plus4(a, b, c, d) == RAdd(a, RAdd(b, RAdd(c, d)))

\* the Incoterm of the loaded invoice is CFR, in any letter case
IncotermCFR == invoice.incoterm \in {"CFR", "CFr", "CfR", "Cfr", "cFR", "cFr", "cfR", "cfr"}

\* the shipment freight in MAD
FretMAD == RMul(invoice.fret, exchangeRate)

\* the freight per kilogram of declared gross weight, 0 when that weight is 0
FreightPerKg ==
    IF invoice.totalWeightBrut.n > 0 THEN RDiv(FretMAD, invoice.totalWeightBrut) ELSE Zero

\* the net weight of an item, 0 when missing
NetOf(i) == IF IsNum(i.weightNet) THEN i.weightNet ELSE Zero

\* the total net weight of the regime-023 items of the loaded invoice
Net023 ==
    Sigma([k \in 1..Len(invoice.items) |->
              IF invoice.items[k].regime = "023" THEN NetOf(invoice.items[k]) ELSE Zero])

\* the loaded invoice has items and its subtotal is the sum of their prices
WellFormed ==
    /\ invoice.items # <<>>
    /\ invoice.subtotal = Sigma([k \in 1..Len(invoice.items) |-> invoice.items[k].totalPrice])

\* every item of the loaded invoice carries a net weight
AllWeighed == \A k \in 1..Len(invoice.items) : IsNum(invoice.items[k].weightNet)

\* the valuation-contributing freight of the groups of one regime
VadFretOf(ri) == [hi \in GroupIdx(ri) |-> fretForVAD[ri][hi]]

-----------------------------------------------------------------------------
(* Properties *)

\* C1: additivity of the valuation.  In every report, each regime's totalVAD
\* is the sum of the totalVAD of its HS groups, and the report's totalVAD is
\* the sum of the totalVAD of its regimes.
C1_Additivity ==
    HasReport =>
        /\ \A ri \in RegimeIdx :
              Reg(ri).totalVAD = Sigma([hi \in GroupIdx(ri) |-> Grp(ri, hi).totalVAD])
        /\ results.totalVAD = Sigma([ri \in RegimeIdx |-> Reg(ri).totalVAD])

\* a report with two regimes, one of them a CFR packaging regime whose
\* displayed freight is not part of its valuation
C1_Witness ==
    /\ HasReport
    /\ Len(results.breakdown) = 2
    /\ \A ri \in RegimeIdx : Reg(ri).totalVAD.n > 0
    /\ \E ri \in RegimeIdx : \E hi \in GroupIdx(ri) :
          Grp(ri, hi).fretValueMAD # fretForVAD[ri][hi]

\* a report with one regime made of two HS groups
C1_WitnessGroups ==
    /\ HasReport
    /\ \E ri \in RegimeIdx :
          /\ Len(Reg(ri).hsCodeBreakdown) = 2
          /\ \A hi \in GroupIdx(ri) : Grp(ri, hi).totalVAD.n > 0


\* the valuation-contributing freight of all regime-023 groups of the report
VadFret023 ==
    Sigma([ri \in RegimeIdx |->
              IF Reg(ri).regime = "023" THEN Sigma(VadFretOf(ri)) ELSE Zero])

\* C2 as stated: under CFR every non-023 group has valuation freight 0, the
\* valuation freight of the 023 groups adds up to fret x rate, and each 023
\* group receives the share (group net weight / total 023 net weight) of it.
\* Stated for the invoices that have items and a consistent subtotal.
C2_Original ==
    (HasReport /\ WellFormed /\ IncotermCFR) =>
        /\ \A ri \in RegimeIdx : \A hi \in GroupIdx(ri) :
              Reg(ri).regime # "023" => fretForVAD[ri][hi] = Zero
        /\ VadFret023 = FretMAD
        /\ \A ri \in RegimeIdx : \A hi \in GroupIdx(ri) :
              Reg(ri).regime = "023" =>
                  fretForVAD[ri][hi] = RMul(RDiv(Grp(ri, hi).weightNet, Net023), FretMAD)

\* C2 amended: under CFR every non-023 group has valuation freight 0; when the
\* total 023 net weight is positive the valuation freight of the 023 groups
\* adds up to fret x rate, each group receiving its net-weight share; when
\* that weight is 0 every group has valuation freight 0.
C2_CFRExclusivity ==
    (HasReport /\ IncotermCFR) =>
        /\ \A ri \in RegimeIdx : \A hi \in GroupIdx(ri) :
              Reg(ri).regime # "023" => fretForVAD[ri][hi] = Zero
        /\ Net023.n > 0 =>
              /\ VadFret023 = FretMAD
              /\ \A ri \in RegimeIdx : \A hi \in GroupIdx(ri) :
                    Reg(ri).regime = "023" =>
                        fretForVAD[ri][hi] =
                            RMul(RDiv(Grp(ri, hi).weightNet, Net023), FretMAD)
        /\ Net023.n = 0 =>
              \A ri \in RegimeIdx : \A hi \in GroupIdx(ri) : fretForVAD[ri][hi] = Zero

\* a CFR report with a 023 group carrying freight and a group of another
\* regime that has weight
C2_Witness ==
    /\ HasReport
    /\ IncotermCFR
    /\ \E ri \in RegimeIdx : \E hi \in GroupIdx(ri) :
          Reg(ri).regime = "023" /\ fretForVAD[ri][hi].n > 0
    /\ \E ri \in RegimeIdx : \E hi \in GroupIdx(ri) :
          Reg(ri).regime # "023" /\ Grp(ri, hi).weightBrut.n > 0

\* C3 as stated: each regime's fretValueMAD is the sum of the valuation
\* freight of its groups, so that the regime's totalVAD is the sum of its
\* FOB, freight, insurance and handling.  Stated for the invoices that have
\* items and a consistent subtotal.
C3_RegimeFreight ==
    (HasReport /\ WellFormed) =>
        \A ri \in RegimeIdx :
            /\ Reg(ri).fretValueMAD = Sigma(VadFretOf(ri))
            /\ Reg(ri).totalVAD =
                  Plus4(Reg(ri).fobValueMAD, Reg(ri).fretValueMAD,
                        Reg(ri).assuranceValueMAD, Reg(ri).aconageValueMAD)

\* C4 as stated: each grand total of the report is the sum of the same field
\* over the regimes of breakdown.  Stated for the invoices that have items, a
\* consistent subtotal, a net weight on every item and a gross weight above 0.
C4_GrandTotals ==
    (HasReport /\ WellFormed /\ AllWeighed /\ invoice.totalWeightBrut.n > 0) =>
        /\ results.totalFobMAD = Sigma([ri \in RegimeIdx |-> Reg(ri).fobValueMAD])
        /\ results.totalFretMAD = Sigma([ri \in RegimeIdx |-> Reg(ri).fretValueMAD])
        /\ results.totalAssuranceMAD = Sigma([ri \in RegimeIdx |-> Reg(ri).assuranceValueMAD])
        /\ results.totalAconageMAD = Sigma([ri \in RegimeIdx |-> Reg(ri).aconageValueMAD])
        /\ results.totalVAD = Sigma([ri \in RegimeIdx |-> Reg(ri).totalVAD])

\* C5 as stated: with a total gross weight of 0 the freight and handling
\* ratios are 0, so every handling amount is 0 and so is every freight amount
\* taken from the freight ratio (all but the 023 groups under CFR, whose
\* freight comes from the 023 ratio); with a total 023 net weight of 0 the 023
\* ratio is 0, so the 023 groups get no freight under CFR.  Stated for the
\* invoices that have items and a consistent subtotal.
C5_ZeroGuard ==
    (HasReport /\ WellFormed) =>
        /\ invoice.totalWeightBrut.n = 0 =>
              \A ri \in RegimeIdx : \A hi \in GroupIdx(ri) :
                  /\ Grp(ri, hi).aconageValueMAD = Zero
                  /\ \/ IncotermCFR /\ Reg(ri).regime = "023"
                     \/ Grp(ri, hi).fretValueMAD = Zero /\ fretForVAD[ri][hi] = Zero
        /\ (Net023.n = 0 /\ IncotermCFR) =>
              \A ri \in RegimeIdx : \A hi \in GroupIdx(ri) :
                  Reg(ri).regime = "023" => fretForVAD[ri][hi] = Zero

\* C6: under an Incoterm that is not CFR every group of every regime gets
\* (freight per kilogram of gross weight) x (group gross weight) both as its
\* valuation freight and as its displayed fretValueMAD.
C6_NonCFRFreight ==
    (HasReport /\ ~IncotermCFR) =>
        \A ri \in RegimeIdx : \A hi \in GroupIdx(ri) :
            /\ fretForVAD[ri][hi] = RMul(FreightPerKg, Grp(ri, hi).weightBrut)
            /\ Grp(ri, hi).fretValueMAD = fretForVAD[ri][hi]

\* a CIF report with a packaging group that carries freight
C6_Witness ==
    /\ HasReport
    /\ invoice.incoterm = "CIF"
    /\ \E ri \in RegimeIdx : \E hi \in GroupIdx(ri) :
          Reg(ri).regime = "312" /\ fretForVAD[ri][hi].n > 0

\* the sum of the four stored monetary fields of a group
FourFields(h) ==
    Plus4(h.fobValueMAD, h.fretValueMAD, h.assuranceValueMAD, h.aconageValueMAD)

\* C7 as stated: the stored totalVAD of every group is the sum of its four
\* stored monetary fields.
C7_Original ==
    HasReport =>
        \A ri \in RegimeIdx : \A hi \in GroupIdx(ri) :
            Grp(ri, hi).totalVAD = FourFields(Grp(ri, hi))

\* C7 amended: the stored totalVAD of a group is the sum of its four stored
\* monetary fields, except for a group of a regime other than 023 under CFR,
\* whose totalVAD is the sum of its stored FOB, insurance and handling.
C7_StoredTotal ==
    HasReport =>
        \A ri \in RegimeIdx : \A hi \in GroupIdx(ri) :
            IF IncotermCFR /\ Reg(ri).regime # "023"
            THEN Grp(ri, hi).totalVAD =
                    RAdd(Grp(ri, hi).fobValueMAD,
                         RAdd(Grp(ri, hi).assuranceValueMAD, Grp(ri, hi).aconageValueMAD))
            ELSE Grp(ri, hi).totalVAD = FourFields(Grp(ri, hi))

\* a CFR report with a 023 group and a group of another regime whose stored
\* freight is positive
C7_Witness ==
    /\ HasReport
    /\ IncotermCFR
    /\ \E ri \in RegimeIdx : \E hi \in GroupIdx(ri) :
          Reg(ri).regime = "023" /\ Grp(ri, hi).fretValueMAD.n > 0
    /\ \E ri \in RegimeIdx : \E hi \in GroupIdx(ri) :
          Reg(ri).regime # "023" /\ Grp(ri, hi).fretValueMAD.n > 0

\* C8: the totalVAD of every group is its FOB plus its valuation freight plus
\* its insurance plus its handling; under CFR a group of a regime other than
\* 023 shows (freight per kilogram) x (gross weight) in fretValueMAD, which is
\* no part of its totalVAD.
C8_GroupTotal ==
    HasReport =>
        \A ri \in RegimeIdx : \A hi \in GroupIdx(ri) :
            /\ Grp(ri, hi).totalVAD =
                  Plus4(Grp(ri, hi).fobValueMAD, fretForVAD[ri][hi],
                        Grp(ri, hi).assuranceValueMAD, Grp(ri, hi).aconageValueMAD)
            /\ (IncotermCFR /\ Reg(ri).regime # "023") =>
                  /\ Grp(ri, hi).fretValueMAD = RMul(FreightPerKg, Grp(ri, hi).weightBrut)
                  /\ Grp(ri, hi).totalVAD =
                        RAdd(Grp(ri, hi).fobValueMAD,
                             RAdd(Grp(ri, hi).assuranceValueMAD, Grp(ri, hi).aconageValueMAD))

\* a CFR report showing a positive display-only freight for a packaging group
C8_Witness ==
    /\ HasReport
    /\ IncotermCFR
    /\ \E ri \in RegimeIdx : \E hi \in GroupIdx(ri) :
          /\ Reg(ri).regime = "312"
          /\ Grp(ri, hi).fretValueMAD.n > 0
          /\ fretForVAD[ri][hi] = Zero

\* C9: the insurance of every group is (FOB + valuation freight) x 0.005,
\* never taken on the display-only freight; FOB 10000 and valuation freight
\* 500 give 52.5.
C9_Insurance ==
    /\ assuranceHS(R(10000), R(500)) = Frac(105, 2)
    /\ HasReport =>
          \A ri \in RegimeIdx : \A hi \in GroupIdx(ri) :
              Grp(ri, hi).assuranceValueMAD =
                  RMul(RAdd(Grp(ri, hi).fobValueMAD, fretForVAD[ri][hi]), Frac(1, 200))

\* a report in which one group's displayed freight differs from its valuation
\* freight and another group's valuation freight is positive
C9_Witness ==
    /\ HasReport
    /\ \E ri \in RegimeIdx : \E hi \in GroupIdx(ri) :
          Grp(ri, hi).fretValueMAD # fretForVAD[ri][hi]
    /\ \E ri \in RegimeIdx : \E hi \in GroupIdx(ri) :
          fretForVAD[ri][hi].n > 0 /\ Grp(ri, hi).assuranceValueMAD.n > 0

\* C10 as stated: whenever the total gross weight is positive, the handling
\* amounts of all groups of all regimes, and the report's totalAconageMAD,
\* add up to the fixed 2300 MAD.  Stated for the invoices that have items, a
\* consistent subtotal and a net weight on every item.
C10_HandlingTotal ==
    (HasReport /\ WellFormed /\ AllWeighed /\ invoice.totalWeightBrut.n > 0) =>
        /\ results.totalAconageMAD = R(2300)
        /\ Sigma([ri \in RegimeIdx |->
                    Sigma([hi \in GroupIdx(ri) |-> Grp(ri, hi).aconageValueMAD])]) = R(2300)

\* the handling per kilogram of declared gross weight, 0 when that weight is 0
HandlingPerKg ==
    IF invoice.totalWeightBrut.n > 0 THEN RDiv(R(2300), invoice.totalWeightBrut) ELSE Zero

\* C11: the handling of every group is (2300 / total gross weight) x (group
\* gross weight), the ratio being 0 when the total gross weight is 0, whatever
\* the regime of the group and whatever the Incoterm.
C11_HandlingFormula ==
    HasReport =>
        \A ri \in RegimeIdx : \A hi \in GroupIdx(ri) :
            Grp(ri, hi).aconageValueMAD = RMul(HandlingPerKg, Grp(ri, hi).weightBrut)

\* a CFR report in which a 023 group and a group of another regime both bear
\* handling
C11_Witness ==
    /\ HasReport
    /\ IncotermCFR
    /\ \E ri \in RegimeIdx : \E hi \in GroupIdx(ri) :
          Reg(ri).regime = "023" /\ Grp(ri, hi).aconageValueMAD.n > 0
    /\ \E ri \in RegimeIdx : \E hi \in GroupIdx(ri) :
          Reg(ri).regime # "023" /\ Grp(ri, hi).aconageValueMAD.n > 0

\* a count or weight of an item, 0 when missing
Count(x) == IF IsNum(x) THEN x ELSE Zero

\* the HS key of an item: its HS code, the fallback of the built App when the
\* code is missing
KeyOf(i) ==
    IF i.hsCode # "" THEN i.hsCode
    ELSE IF version = "legacy" THEN "VARIOUS" ELSE "UNKNOWN"

\* the positions, in the loaded invoice, of the items of a group of the report
PosOf(ri, hi) ==
    {k \in 1..Len(invoice.items) :
        /\ invoice.items[k].regime = Reg(ri).regime
        /\ KeyOf(invoice.items[k]) = Grp(ri, hi).hsCode}

\* the sum of f over a finite set of positions
RECURSIVE SigmaOver(_, _)
SigmaOver(P, f) ==
    IF P = {} THEN Zero
    ELSE LET k == CHOOSE x \in P : TRUE IN RAdd(f[k], SigmaOver(P \ {k}, f))

Boxes == [k \in 1..Len(invoice.items) |-> Count(invoice.items[k].packagingCaisses)]

Pallets == [k \in 1..Len(invoice.items) |-> Count(invoice.items[k].packagingPalettes)]

Nets == [k \in 1..Len(invoice.items) |-> Count(invoice.items[k].weightNet)]

Prices == [k \in 1..Len(invoice.items) |-> invoice.items[k].totalPrice]

ScenarioInvoice ==
    [subtotal |-> R(1000), fret |-> R(100), incoterm |-> "FOB", totalWeightBrut |-> R(500),
     items |-> <<Item("d1", R(1000), "023", "HS1", R(500), NaN, NaN)>>]

\* C13: for the scenario invoice (subtotal 1000, freight 100, FOB, gross
\* weight 500, one 023 item of net weight 500, price 1000 and HS code HS1)
\* at rate 11 the report has one regime with one HS group of FOB 11000,
\* freight 1100, insurance 60.5, handling 2300 and totalVAD 14460.5, and the
\* report's totalVAD is that same value.
C13_Scenario ==
    (HasReport /\ invoice = ScenarioInvoice /\ exchangeRate = R(11)) =>
        /\ Len(results.breakdown) = 1
        /\ Len(Reg(1).hsCodeBreakdown) = 1
        /\ Reg(1).regime = "023"
        /\ Grp(1, 1).hsCode = "HS1"
        /\ Grp(1, 1).fobValueMAD = R(11000)
        /\ Grp(1, 1).fretValueMAD = R(1100)
        /\ fretForVAD[1][1] = R(1100)
        /\ Grp(1, 1).assuranceValueMAD = Frac(121, 2)
        /\ Grp(1, 1).aconageValueMAD = R(2300)
        /\ Grp(1, 1).totalVAD = Frac(28921, 2)
        /\ results.totalVAD = Frac(28921, 2)

\* the report of the scenario invoice at rate 11
C13_Witness ==
    /\ HasReport
    /\ invoice = ScenarioInvoice
    /\ exchangeRate = R(11)
    /\ results.totalVAD.n > 0

\* the position of the first item of the loaded invoice that carries regime r
FirstPos(r) ==
    CHOOSE k \in 1..Len(invoice.items) :
        /\ invoice.items[k].regime = r
        /\ \A j \in 1..(k - 1) : invoice.items[j].regime # r

\* the positions of the items of the loaded invoice that carry regime r
RegimePos(r) == {k \in 1..Len(invoice.items) : invoice.items[k].regime = r}

\* C14: the regimes of breakdown are the distinct regime codes of the items,
\* each once, in the order of their first occurrence in the item sequence;
\* every item belongs to exactly one HS group of the report, a group of the
\* regime it carries, and the FOB of each regime and of each group is the
\* converted sum of the prices of exactly its items, so that no item is
\* dropped or counted twice.
C14_RegimePartition ==
    HasReport =>
        /\ {Reg(ri).regime : ri \in RegimeIdx} = {invoice.items[k].regime : k \in 1..Len(invoice.items)}
        /\ \A ri, rj \in RegimeIdx :
              ri < rj => FirstPos(Reg(ri).regime) < FirstPos(Reg(rj).regime)
        /\ \A k \in 1..Len(invoice.items) :
              Cardinality({p \in {<<ri, hi>> : ri \in RegimeIdx, hi \in 1..Len(invoice.items)} :
                              p[2] \in GroupIdx(p[1]) /\ k \in PosOf(p[1], p[2])}) = 1
        /\ \A ri \in RegimeIdx :
              /\ Reg(ri).fobValueMAD = RMul(SigmaOver(RegimePos(Reg(ri).regime), Prices), exchangeRate)
              /\ \A hi \in GroupIdx(ri) :
                    Grp(ri, hi).fobValueMAD = RMul(SigmaOver(PosOf(ri, hi), Prices), exchangeRate)

\* a report of two regimes whose first-seen order is not their sorted order
C14_Witness ==
    /\ HasReport
    /\ Len(results.breakdown) = 2
    /\ Reg(1).regime = "312"
    /\ Reg(2).regime = "023"
    /\ invoice.items[1].regime = "312"

\* a report of one regime for two items that carry the same regime code
C14_WitnessMerged ==
    /\ HasReport
    /\ Len(invoice.items) = 2
    /\ Len(results.breakdown) = 1

\* the first position of a non-empty set of positions
MinPos(P) == CHOOSE k \in P : \A j \in P : k <= j

\* C15: within a regime the HS codes of the groups are pairwise distinct and
\* every item of the regime lies in the group of its HS code, the items
\* without HS code in the group 'UNKNOWN'; the FOB of a group is the sum of
\* its items' prices times the rate, its net weight the sum of its items' net
\* weights (a missing one is 0), its description that of its first item in
\* invoice order.
C15_HSAggregation ==
    HasReport =>
        \A ri \in RegimeIdx :
            /\ \A hi, hj \in GroupIdx(ri) : hi # hj => Grp(ri, hi).hsCode # Grp(ri, hj).hsCode
            /\ \A k \in RegimePos(Reg(ri).regime) :
                  \E hi \in GroupIdx(ri) :
                      Grp(ri, hi).hsCode =
                          IF invoice.items[k].hsCode = "" THEN "UNKNOWN"
                          ELSE invoice.items[k].hsCode
            /\ \A hi \in GroupIdx(ri) :
                  /\ PosOf(ri, hi) # {}
                  /\ Grp(ri, hi).fobValueMAD = RMul(SigmaOver(PosOf(ri, hi), Prices), exchangeRate)
                  /\ Grp(ri, hi).weightNet = SigmaOver(PosOf(ri, hi), Nets)
                  /\ Grp(ri, hi).description = invoice.items[MinPos(PosOf(ri, hi))].description

\* a report with a group made of two different items that share an HS code,
\* one of them without net weight
C15_Witness ==
    /\ HasReport
    /\ \E ri \in RegimeIdx : \E hi \in GroupIdx(ri) :
          /\ PosOf(ri, hi) = {1, 2}
          /\ invoice.items[1] # invoice.items[2]
          /\ ~IsNum(invoice.items[1].weightNet)
          /\ Grp(ri, hi).weightNet.n > 0

\* a report with two items without HS code merged in the group 'UNKNOWN'
C15_WitnessFallback ==
    /\ HasReport
    /\ \E ri \in RegimeIdx : \E hi \in GroupIdx(ri) :
          /\ PosOf(ri, hi) = {1, 2}
          /\ Grp(ri, hi).hsCode = "UNKNOWN"
          /\ invoice.items[1].hsCode = ""

\* C16 as stated: every regime of the report carries the code of its items
\* verbatim; a code of the static table is labelled by the table, every other
\* code, whatever string it is, by 'Régime Spécifique'.
C16_RegimeLabels ==
    HasReport =>
        /\ {Reg(ri).regime : ri \in RegimeIdx} = {invoice.items[k].regime : k \in 1..Len(invoice.items)}
        /\ \A ri \in RegimeIdx :
              Reg(ri).regimeLibelle =
                  IF Reg(ri).regime \in {"010", "023", "312", "311", "022", "040"}
                  THEN REGIME_LABELS[Reg(ri).regime]
                  ELSE "Régime Spécifique"

Amounts(x) ==
    {x.fobValueMAD, x.fretValueMAD, x.assuranceValueMAD, x.aconageValueMAD, x.weightBrut,
     x.totalVAD}

\* C18 as stated: every run of calculateCustoms on a loaded invoice produces
\* a report, without raising, and every numeric field of the report is a
\* number.
C18_Totality ==
    invoice # Null =>
        /\ HasReport
        /\ error = NoError
        /\ \A x \in {results.exchangeRate, results.totalFobMAD, results.totalFretMAD,
                     results.totalAssuranceMAD, results.totalAconageMAD,
                     results.totalWeightBrut, results.totalVAD} : IsNum(x)
        /\ \A ri \in RegimeIdx :
              /\ \A x \in Amounts(Reg(ri)) : IsNum(x)
              /\ \A hi \in GroupIdx(ri) :
                    \A x \in Amounts(Grp(ri, hi)) \cup {Grp(ri, hi).weightNet} : IsNum(x)

\* the spellings of the Incoterm of the loaded invoice in other letter cases
LetterCases ==
    IF invoice.incoterm \in {"CFR", "cfr", "Cfr"} THEN {"CFR", "cfr", "Cfr"}
    ELSE IF invoice.incoterm \in {"CIF", "cif"} THEN {"CIF", "cif"}
    ELSE IF invoice.incoterm \in {"FOB", "fob"} THEN {"FOB", "fob"}
    ELSE {invoice.incoterm}

\* the loaded invoice with its Incoterm spelled inc
Respelled(inc) == [invoice EXCEPT !.incoterm = inc]

\* the allocations are those of the same invoice under any other letter case
\* of its Incoterm
SameUnderLetterCases ==
    \A inc \in LetterCases :
        /\ Report(version, Respelled(inc), exchangeRate).breakdown = results.breakdown
        /\ customsFretForVAD(version, Respelled(inc), exchangeRate) = fretForVAD

\* the allocation of the CFR mode: no valuation freight outside regime 023
AllocatedAsCFR ==
    \A ri \in RegimeIdx : \A hi \in GroupIdx(ri) :
        Reg(ri).regime # "023" => fretForVAD[ri][hi] = Zero

\* the allocation of the other mode: freight by gross weight for every group
AllocatedByWeight ==
    \A ri \in RegimeIdx : \A hi \in GroupIdx(ri) :
        fretForVAD[ri][hi] = RMul(FreightPerKg, Grp(ri, hi).weightBrut)

\* C19 as stated: the allocations do not depend on the letter case of the
\* Incoterm, and the CFR mode is selected exactly when the upper-cased
\* Incoterm is CFR; CIF does not select it.  Stated for the invoices that
\* have items, a consistent subtotal and a gross weight above 0.
C19_Original ==
    (HasReport /\ WellFormed /\ invoice.totalWeightBrut.n > 0) =>
        /\ SameUnderLetterCases
        /\ IncotermCFR => AllocatedAsCFR
        /\ ~IncotermCFR => AllocatedByWeight

\* the Incoterm for which the built App selects the CFR mode: CFR in any
\* letter case, and in the legacy App CIF in any letter case as well
SelectsCFRMode ==
    \/ IncotermCFR
    \/ version = "legacy" /\ invoice.incoterm \in {"CIF", "CIf", "CiF", "Cif", "cIF", "cIf", "ciF", "cif"}

\* C19 amended: the allocations do not depend on the letter case of the
\* Incoterm; the current App selects the CFR mode exactly when the upper-cased
\* Incoterm is CFR, the legacy App exactly when it is CFR or CIF.
C19_IncotermCase ==
    (HasReport /\ invoice.totalWeightBrut.n > 0) =>
        /\ SameUnderLetterCases
        /\ SelectsCFRMode => AllocatedAsCFR
        /\ ~SelectsCFRMode => AllocatedByWeight

\* a report for the Incoterm 'cfr' in which a group outside regime 023 has
\* weight and the two modes differ
C19_Witness ==
    /\ HasReport
    /\ invoice.incoterm = "cfr"
    /\ invoice.totalWeightBrut.n > 0
    /\ AllocatedAsCFR
    /\ ~AllocatedByWeight
    /\ \E ri \in RegimeIdx : \E hi \in GroupIdx(ri) :
          Reg(ri).regime # "023" /\ Grp(ri, hi).weightBrut.n > 0

\* a report of the legacy App for the Incoterm 'CIF' allocated in the CFR mode
C19_WitnessLegacyCIF ==
    /\ HasReport
    /\ version = "legacy"
    /\ invoice.incoterm = "CIF"
    /\ invoice.totalWeightBrut.n > 0
    /\ AllocatedAsCFR
    /\ ~AllocatedByWeight

\* C20 as stated: the report carries, unchanged, the rate passed to
\* calculateCustoms, the Incoterm string of the invoice as written, and the
\* declared total gross weight of the invoice, also when that weight is 0.
\* Stated for the invoices that have items and a consistent subtotal.
C20_CopyThrough ==
    (HasReport /\ WellFormed) =>
        /\ results.exchangeRate = exchangeRate
        /\ results.incoterm = invoice.incoterm
        /\ results.totalWeightBrut = invoice.totalWeightBrut

-----------------------------------------------------------------------------
(* The host: effects of the handlers *)

\* the step is a run of calculateCustoms that returns: the end of an upload
\* that sets the invoice, or an edit of the rate to a number with an invoice
\* loaded
Invoked ==
    \/ event'.name = "loaded" /\ ~calculateCustomsThrows(version, invoice')
    \/ /\ event'.name = "rateEdit" /\ IsNum(event'.val)
       /\ invoice # Null /\ ~calculateCustomsThrows(version, invoice)

\* the regime codes of the items of an invoice
RegimesOf(data) == {data.items[k].regime : k \in 1..Len(data.items)}

C22_LatestWins == inFlight = 0 => latestUpload # "overwritten"

\* C23: a failing upload is surfaced and not retried.  The step in which an
\* upload fails (extractInvoiceData or getExchangeRate rejects) stores a
\* non-empty error message, leaves invoice, results and exchangeRate as they
\* were, resets loading to false, and takes the upload out of flight without
\* starting another.
C23_FailureSurfaced ==
    [][event'.name = "failed" =>
        /\ error' \notin {NoError, ""}
        /\ invoice' = invoice /\ results' = results /\ exchangeRate' = exchangeRate
        /\ loading' = FALSE
        /\ inFlight' = inFlight - 1
        /\ latestUpload' # "inFlight" \/ latestUpload = "inFlight"]_vars

\* an upload has failed in extractInvoiceData: its message is shown, nothing is
\* loaded, no upload is in flight
C23_Witness ==
    /\ event.name = "failed" /\ error = "Erreur"
    /\ invoice = Null /\ results = Null
    /\ loading = FALSE /\ inFlight = 0

\* the source gives no usable rate: it fails, answers non-OK, or answers
\* without a number for the target currency
Unusable(answer) == answer.kind # "answer" \/ ~IsNum(answer.rate)

\* C24 as stated: the exchange-rate lookup always yields a rate.  Once an
\* upload has run to its end, the lookup it used resolves to a number for
\* every behaviour of the rate source, to 10.5 when the source gives no usable
\* rate, and the error shown is never the lookup's rejection.
C24_RateAlways ==
    event.name \in {"loaded", "failed"} =>
        /\ \A answer \in RateAnswers :
              /\ rateLookup(service, answer) # Rejected
              /\ Unusable(answer) => rateLookup(service, answer) = Frac(21, 2)
        /\ error # RateError

-----------------------------------------------------------------------------
(* The order of the report *)

\* C25 as stated: first-seen order.  The regimes of the report are in the
\* order in which their codes first occur in the item sequence, and within
\* each regime the HS groups are in the order in which their HS codes first
\* occur, whatever the HS code strings are.
C25_FirstSeenOrder ==
    HasReport =>
        /\ \A ri, rj \in RegimeIdx :
              ri < rj => FirstPos(Reg(ri).regime) < FirstPos(Reg(rj).regime)
        /\ \A ri \in RegimeIdx : \A hi, hj \in GroupIdx(ri) :
              hi < hj => MinPos(PosOf(ri, hi)) < MinPos(PosOf(ri, hj))

-----------------------------------------------------------------------------
(* The host: rate edits, consistency, loading, PDF export *)

C27_Consistent ==
    results # Null =>
        /\ invoice # Null
        /\ results.exchangeRate = exchangeRate
        /\ ~calculateCustomsThrows(version, invoice)
        /\ results = Report(version, invoice, exchangeRate)

\* C28 as stated: the loading flag tracks the uploads in flight.  loading is
\* true in every state in which an upload has started and not come to its
\* end, and it is false in every state in which none is in flight, whether
\* the uploads ended in success, in a failed extraction or in a file that
\* could not be read.
C28_LoadingTracks ==
    /\ inFlight > 0 => loading = TRUE
    /\ inFlight = 0 => loading = FALSE

-----------------------------------------------------------------------------
(* The grand totals shown on the report *)

\* C29 as stated: the grand totals are self-consistent.  The report's
\* totalVAD is the sum of the four totals shown with it, FOB, freight,
\* insurance and handling, and so is the totalVAD of the simplified
\* calculator for the same subtotal, freight and rate.  Stated for the
\* invoices that have items, a consistent subtotal, a net weight on every item
\* and a gross weight above 0.
C29_TotalsAddUp ==
    (HasReport /\ WellFormed /\ AllWeighed /\ invoice.totalWeightBrut.n > 0) =>
        /\ results.totalVAD =
              Plus4(results.totalFobMAD, results.totalFretMAD,
                    results.totalAssuranceMAD, results.totalAconageMAD)
        /\ LET c == processCalculation(invoice.subtotal, invoice.fret, exchangeRate, "EUR")
           IN  c.totalVAD = Plus4(c.fob, c.fret, c.assurance, c.aconage)

-----------------------------------------------------------------------------
(* The PDF export *)

\* C30: at most one PDF generation is in progress.  Never more than one save()
\* is pending, and whenever none is pending (every started generation has
\* ended, the library having succeeded, thrown or not been loaded) isGenerating
\* is false and the body class 'generating-pdf' is absent.  A generation is
\* started only with the report element present and isGenerating false; a call
\* of handleDownloadPDF in any other state starts nothing and changes no state
\* of the App, and a call without the library ends with the flag and the
\* class as they were.
C30_OneGeneration ==
    /\ [](/\ saving <= 1
          /\ saving = 0 => (isGenerating = FALSE /\ generatingClass = FALSE)
          /\ saving = 1 => (isGenerating = TRUE /\ generatingClass = TRUE))
    /\ [][/\ event'.name = "pdfStarted" =>
                (reportElement /\ isGenerating = FALSE /\ saving' = saving + 1)
          /\ (saving' > saving) => event'.name = "pdfStarted"
          /\ event'.name \in {"pdfIgnored", "pdfNoLibrary"} =>
                UNCHANGED <<loading, error, invoice, results, exchangeRate, pdfVars, inFlight>>
          /\ (event'.name \in {"pdfSaved", "pdfThrew"}) =>
                (isGenerating' = FALSE /\ generatingClass' = FALSE)]_vars

\* handleDownloadPDF has been called while a generation was in progress and
\* the report element was present
C30_Witness ==
    /\ event.name = "pdfIgnored"
    /\ isGenerating = TRUE /\ generatingClass = TRUE /\ saving = 1
    /\ reportElement

====
